---- MODULE Spec2Model ----
(***************************************************************************)
(* Recipe authoring workflow of backend/src/recipes/serializers.py:        *)
(* RecipeCreateSerializer (validation, create, update, add_ingredients)    *)
(* and the read projection RecipeReadSerializer.get_ingredients.           *)
(*                                                                         *)
(* The database is three tables: Recipe rows, IngredientRecipe rows (a bag,*)
(* the primary key of a link row is not observable) and the Recipe.tags    *)
(* many-to-many table.  One write request is in flight at a time and is    *)
(* executed statement by statement; every state in between is what another *)
(* request reading the database at that moment observes.                   *)
(*                                                                         *)
(* The plain model fields image and text go through the serializer exactly *)
(* like name (required, no custom validation, written by the ORM); name    *)
(* stands for them.                                                        *)
(***************************************************************************)
EXTENDS Integers, Sequences, FiniteSets, Bags, TLC

\* ------------------------------------------------------------------ bounds
MaxRecipes == 2
MaxIngredients == 2
MaxAmount == 1
MaxCookingTime == 1

\* ---------------------------------------------------------------- catalogs
\* Ingredient.objects.all(): the primary keys of the ingredient catalog.
Ingredient == {1, 2}

\* Tag.objects.all(): the primary keys of the tag catalog.
Tag == {1}

\* An identifier as it arrives in the JSON payload: a number or a string.
\* Python compares them with ==, for which 1 and "1" differ.
IntId(n) == [type |-> "int", value |-> n]
StrId(n) == [type |-> "str", value |-> n]

\* Identifiers offered to the serializer; 3 is in no catalog row.
RawIngredientIds == {IntId(1), StrId(1), IntId(2), IntId(3)}
RawTagIds == {1, 2}
Names == {"a", "b"}
Amounts == -1 .. MaxAmount
CookingTimes == 0 .. MaxCookingTime

\* ------------------------------------------------------------------ payloads
NoData == [k \in {} |-> 0]

Field(k, S) == {NoData} \cup {k :> v : v \in S}

RECURSIVE SeqsUpTo(_, _)
SeqsUpTo(S, n) ==
    IF n = 0 THEN {<<>>}
    ELSE LET shorter == SeqsUpTo(S, n - 1)
         IN  shorter \cup {Append(s, x) : s \in {t \in shorter : Len(t) = n - 1}, x \in S}

IngredientEntries == [id : RawIngredientIds, amount : Amounts]

\* Tag lists offered to the serializer; 2 is in no catalog row.
TagLists == {S \in SUBSET RawTagIds : Cardinality(S) <= 1}

\* Every request body the model submits: each key present or absent.
Payloads ==
    {n @@ c @@ t @@ i :
        n \in Field("name", Names),
        c \in Field("cooking_time", CookingTimes),
        t \in Field("tags", TagLists),
        i \in Field("ingredients", SeqsUpTo(IngredientEntries, MaxIngredients))}

Has(d, k) == k \in DOMAIN d

\* dict.pop(k) when k is present
Pop(d, k) == [x \in (DOMAIN d) \ {k} |-> d[x]]

\* ---------------------------------------------------------------- validation
\* PrimaryKeyRelatedField.to_internal_value: queryset.get(pk=data); both 1 and
\* "1" select the row with primary key 1.
pk_of(raw) == raw.value

id_resolves(raw) == pk_of(raw) \in Ingredient

\* validate_amount with the comparison off by one (value < 0): lets 0 through.
validate_amount_allows_zero(value) == value < 0

\* IngredientCreateSerializer.validate_amount: TRUE when it raises.
validate_amount_raises(value) == value < 1

\* Field-level validation (Serializer.to_internal_value): every declared field
\* is validated and all errors are collected, keyed by field.
required_errors(data, partial) ==
    IF partial THEN {}
    ELSE {<<k, "required">> : k \in {"name", "cooking_time", "tags", "ingredients"} \ DOMAIN data}

tags_errors(data) ==
    IF Has(data, "tags") /\ \E t \in data["tags"] : t \notin Tag
    THEN {<<"tags", "does_not_exist">>} ELSE {}

ingredients_errors(data) ==
    IF ~Has(data, "ingredients") THEN {}
    ELSE LET items == data["ingredients"]
         IN  {<<"ingredients", "does_not_exist">> :
                 i \in {j \in 1 .. Len(items) : ~id_resolves(items[j].id)}}
             \cup
             {<<"ingredients", "invalid_amount">> :
                 i \in {j \in 1 .. Len(items) : validate_amount_raises(items[j].amount)}}

field_errors(data, partial) ==
    required_errors(data, partial) \cup tags_errors(data) \cup ingredients_errors(data)

\* The value of each field after field-level validation.
to_internal_value(data) ==
    [k \in DOMAIN data |->
        IF k = "ingredients"
        THEN [j \in 1 .. Len(data[k]) |->
                 [ingredient |-> pk_of(data[k][j].id), amount |-> data[k][j].amount]]
        ELSE data[k]]

\* RecipeCreateSerializer.validate, the loop over self.initial_data['ingredients']:
\* TRUE when an identifier is already in ingredients_list.
RECURSIVE repeats(_, _, _)
repeats(items, j, ingredients_list) ==
    IF j > Len(items) THEN FALSE
    ELSE IF items[j].id \in ingredients_list THEN TRUE
    ELSE repeats(items, j + 1, ingredients_list \cup {items[j].id})

\* TRUE when validate raises the cooking time error
cooking_time_raises(data) == data["cooking_time"] < 1

\* RecipeCreateSerializer.validate on the raw payload (initial_data) and the
\* field-validated data: "crash" is an uncaught TypeError / KeyError.
validate(initial, data) ==
    IF ~Has(initial, "ingredients") THEN [status |-> "crash", errors |-> {}]
    ELSE IF repeats(initial["ingredients"], 1, {})
    THEN [status |-> "invalid", errors |-> {<<"non_field_errors", "duplicate">>}]
    ELSE IF ~Has(data, "cooking_time") THEN [status |-> "crash", errors |-> {}]
    ELSE IF cooking_time_raises(data)
    THEN [status |-> "invalid", errors |-> {<<"non_field_errors", "invalid_duration">>}]
    ELSE [status |-> "valid", errors |-> {}]

\* Serializer.run_validation: field-level validation, and validate() only when
\* no field failed.
run_validation(initial, partial) ==
    LET errs == field_errors(initial, partial)
    IN  IF errs # {}
        THEN [status |-> "invalid", errors |-> errs, data |-> NoData]
        ELSE LET data == to_internal_value(initial)
                 v == validate(initial, data)
             IN  [status |-> v.status, errors |-> v.errors,
                  data |-> IF v.status = "valid" THEN data ELSE NoData]

\* Every result run_validation can give for a full (POST, PUT) and for a
\* partial (PATCH) request.
OutcomesFull == {run_validation(p, FALSE) : p \in Payloads}
OutcomesPartial == {run_validation(p, TRUE) : p \in Payloads}

\* --------------------------------------------------------------------- state
VARIABLES
    recipe_table,    \* Recipe rows, indexed by primary key 1 .. Len
    link_table,      \* IngredientRecipe rows: a bag of [recipe, ingredient, amount]
    tag_table,       \* Recipe.tags: the tag set of each recipe
    pc,              \* the statement the request in flight executes next
    method,          \* "POST" (create), "PUT" (update), "PATCH" (partial update)
    instance,        \* update: instance; create: recipe, once created; else 0
    initial_data,    \* self.initial_data, <<payload>> when the request body is kept
    validated_data,  \* what is left of validated_data (keys are popped)
    deleted,         \* the rows the update's delete() removed
    response         \* the last response: status and error mapping

vars == <<recipe_table, link_table, tag_table, pc, method, instance,
          initial_data, validated_data, deleted, response>>

database == <<recipe_table, link_table, tag_table>>

NoResponse == [status |-> "none", errors |-> {}]
Pending == [status |-> "pending", errors |-> {}]
Created == [status |-> "201", errors |-> {}]
Ok == [status |-> "200", errors |-> {}]
BadRequest(errs) == [status |-> "400", errors |-> errs]
ServerError == [status |-> "500", errors |-> {}]

\* RecipeReadSerializer.get_ingredients: IngredientRecipe.objects.filter(recipe=obj)
get_ingredients(obj) ==
    LET rows == {r \in DOMAIN link_table : r.recipe = obj}
    IN  [r \in rows |-> link_table[r]]

\* The rows of every other recipe.
links_except(obj) ==
    LET rows == {r \in DOMAIN link_table : r.recipe # obj}
    IN  [r \in rows |-> link_table[r]]

\* The list comprehension of add_ingredients: one IngredientRecipe per entry.
new_link(recipe, ingredient) ==
    [recipe |-> recipe, ingredient |-> ingredient.ingredient, amount |-> ingredient.amount]

\* add_ingredients that keeps one row per (ingredient, amount), as get_or_create
\* per entry would.
new_links_dedup(recipe, ingredients, j) ==
    SetToBag({new_link(recipe, ingredients[k]) : k \in j .. Len(ingredients)})

RECURSIVE new_links(_, _, _)
new_links(recipe, ingredients, j) ==
    IF j > Len(ingredients) THEN EmptyBag
    ELSE SetToBag({new_link(recipe, ingredients[j])}) (+) new_links(recipe, ingredients, j + 1)

\* IngredientRecipe.objects.bulk_create(...)
bulk_create(table, rows) == table (+) rows

\* Where update() goes after the ingredients block / after the tags block.
after_ingredients(data) == IF Has(data, "tags") THEN "set_tags" ELSE "save"
first_update_step(data) == IF Has(data, "ingredients") THEN "delete" ELSE after_ingredients(data)

Init ==
    /\ recipe_table = <<>>
    /\ link_table = EmptyBag
    /\ tag_table = <<>>
    /\ pc = "idle"
    /\ method = "none"
    /\ instance = 0
    /\ initial_data = <<>>
    /\ validated_data = NoData
    /\ deleted = EmptyBag
    /\ response = NoResponse

\* ------------------------------------------------------------------- actions
\* is_valid for an update that clears the old links before it validates.
is_valid_deletes_first(m, inst, out, kept) ==
    /\ pc = "idle"
    /\ method' = m
    /\ instance' = inst
    /\ initial_data' = kept
    /\ deleted' = EmptyBag
    /\ validated_data' = out.data
    /\ pc' = IF out.status # "valid" THEN "idle"
             ELSE IF m = "POST" THEN "create" ELSE first_update_step(out.data)
    /\ response' = IF out.status = "valid" THEN Pending
                   ELSE IF out.status = "invalid" THEN BadRequest(out.errors)
                   ELSE ServerError
    /\ link_table' = links_except(inst)
    /\ UNCHANGED <<recipe_table, tag_table>>

\* serializer.is_valid(): the request m on inst with validation result out is
\* rejected (400), crashes (500), or goes on to save() -> create() / update().
is_valid(m, inst, out, kept) ==
    /\ pc = "idle"
    /\ method' = m
    /\ instance' = inst
    /\ initial_data' = kept
    /\ deleted' = EmptyBag
    /\ validated_data' = out.data
    /\ pc' = IF out.status # "valid" THEN "idle"
             ELSE IF m = "POST" THEN "create" ELSE first_update_step(out.data)
    /\ response' = IF out.status = "valid" THEN Pending
                   ELSE IF out.status = "invalid" THEN BadRequest(out.errors)
                   ELSE ServerError
    /\ UNCHANGED database

\* A request arrives; its body is not kept once validated.
Request ==
    /\ initial_data = <<>>
    /\ \/ /\ Len(recipe_table) < MaxRecipes
          /\ \E out \in OutcomesFull : is_valid("POST", 0, out, <<>>)
       \/ \E inst \in 1 .. Len(recipe_table) :
             \E out \in OutcomesFull : is_valid("PUT", inst, out, <<>>)
       \/ \E inst \in 1 .. Len(recipe_table) :
             \E out \in OutcomesPartial : is_valid("PATCH", inst, out, <<>>)

\* The one request of a run that keeps its body (self.initial_data).
RequestKept ==
    /\ initial_data = <<>>
    /\ \E p \in Payloads :
          \/ /\ Len(recipe_table) < MaxRecipes
             /\ is_valid("POST", 0, run_validation(p, FALSE), <<p>>)
          \/ \E inst \in 1 .. Len(recipe_table) :
                is_valid("PUT", inst, run_validation(p, FALSE), <<p>>)
          \/ \E inst \in 1 .. Len(recipe_table) :
                is_valid("PATCH", inst, run_validation(p, TRUE), <<p>>)

\* create(): pops ingredients and tags, Recipe.objects.create(author, **validated_data)
create ==
    /\ pc = "create"
    /\ recipe_table' = Append(recipe_table,
           [author |-> "user", name |-> validated_data["name"],
            cooking_time |-> validated_data["cooking_time"]])
    /\ tag_table' = Append(tag_table, {})
    /\ instance' = Len(recipe_table) + 1
    /\ validated_data' = Pop(Pop(validated_data, "name"), "cooking_time")
    /\ pc' = "add_ingredients"
    /\ UNCHANGED <<link_table, method, initial_data, deleted, response>>

\* update() without the delete: the new batch is merged into the old links.
delete_skipped ==
    /\ pc = "delete"
    /\ pc' = "add_ingredients"
    /\ UNCHANGED <<database, method, instance, initial_data, validated_data,
                   deleted, response>>

\* update(): IngredientRecipe.objects.filter(recipe=instance).delete()
delete ==
    /\ pc = "delete"
    /\ deleted' = get_ingredients(instance)
    /\ link_table' = links_except(instance)
    /\ pc' = "add_ingredients"
    /\ UNCHANGED <<recipe_table, tag_table, method, instance, initial_data,
                   validated_data, response>>

\* self.add_ingredients(recipe, ingredients), from create() and from update()
add_ingredients ==
    /\ pc = "add_ingredients"
    /\ link_table' = bulk_create(link_table,
                                 new_links(instance, validated_data["ingredients"], 1))
    /\ validated_data' = Pop(validated_data, "ingredients")
    /\ pc' = IF method = "POST" THEN "set_tags" ELSE after_ingredients(validated_data)
    /\ UNCHANGED <<recipe_table, tag_table, method, instance, initial_data,
                   deleted, response>>

\* recipe.tags.set(tags), the last statement of create() and the tags block of update()
set_tags ==
    /\ pc = "set_tags"
    /\ tag_table' = [tag_table EXCEPT ![instance] = validated_data["tags"]]
    /\ validated_data' = Pop(validated_data, "tags")
    /\ IF method = "POST"
       THEN pc' = "idle" /\ response' = Created /\ deleted' = EmptyBag
       ELSE pc' = "save" /\ UNCHANGED <<response, deleted>>
    /\ UNCHANGED <<recipe_table, link_table, method, instance, initial_data>>

\* super().update(instance, validated_data): setattr for each remaining key, save()
save ==
    /\ pc = "save"
    /\ recipe_table' = [recipe_table EXCEPT ![instance] =
           [f \in DOMAIN @ |-> IF Has(validated_data, f) THEN validated_data[f] ELSE @[f]]]
    /\ validated_data' = NoData
    /\ pc' = "idle"
    /\ response' = Ok
    /\ deleted' = EmptyBag
    /\ UNCHANGED <<link_table, tag_table, method, instance, initial_data>>

\* The statement about to run raises a database error: nothing in the
\* serializer catches it, the statements before it stay committed.
database_error ==
    /\ pc # "idle"
    /\ pc' = "idle"
    /\ response' = ServerError
    /\ validated_data' = NoData
    /\ UNCHANGED <<database, method, instance, initial_data, deleted>>

Persist == create \/ delete \/ add_ingredients \/ set_tags \/ save \/ database_error

Next == Request \/ Persist

\* Any sequence of create and update requests, from the empty database.
Spec == Init /\ [][Next]_vars

\* ---------------------------------------------------- one request, body kept
Seed0 == [recipes |-> <<>>, links |-> EmptyBag, tags |-> <<>>]
Seed1 ==
    [recipes |-> <<[author |-> "user", name |-> "a", cooking_time |-> 1]>>,
     links |-> SetToBag({[recipe |-> 1, ingredient |-> 1, amount |-> 1]}),
     tags |-> <<{1}>>]
Seed2 ==
    [recipes |-> <<[author |-> "user", name |-> "a", cooking_time |-> 1],
                   [author |-> "user", name |-> "b", cooking_time |-> 1]>>,
     links |-> SetToBag({[recipe |-> 1, ingredient |-> 1, amount |-> 1],
                         [recipe |-> 2, ingredient |-> 2, amount |-> 1]}),
     tags |-> <<{1}, {}>>]

\* Databases that creates leave behind (each is reachable under Spec).
SeedDatabases == {Seed0, Seed1, Seed2}

InitKept ==
    /\ \E db \in SeedDatabases :
          /\ recipe_table = db.recipes
          /\ link_table = db.links
          /\ tag_table = db.tags
    /\ pc = "idle"
    /\ method = "none"
    /\ instance = 0
    /\ initial_data = <<>>
    /\ validated_data = NoData
    /\ deleted = EmptyBag
    /\ response = NoResponse

NextKept == RequestKept \/ Persist

\* One request, with its payload kept, against a database left by creates.
SpecKept == InitKept /\ [][NextKept]_vars

\* ===================================================================== claims
Kept == initial_data # <<>>
payload == initial_data[1]
AllKeys == {"name", "cooking_time", "tags", "ingredients"}
Updates == {"PUT", "PATCH"}

Entries(p) == IF Has(p, "ingredients") THEN p["ingredients"] ELSE <<>>
HasRepeatedId(p) ==
    \E i, j \in 1 .. Len(Entries(p)) : i < j /\ Entries(p)[i].id = Entries(p)[j].id
HasUnresolvedId(p) ==
    \E j \in 1 .. Len(Entries(p)) : Entries(p)[j].id.value \notin Ingredient
HasUnresolvedTag(p) == Has(p, "tags") /\ p["tags"] \ Tag # {}
HasBadAmount(p) == \E j \in 1 .. Len(Entries(p)) : Entries(p)[j].amount < 1
HasBadCookingTime(p) == Has(p, "cooking_time") /\ p["cooking_time"] < 1
Defective(p) ==
    \/ HasUnresolvedId(p) \/ HasUnresolvedTag(p) \/ HasRepeatedId(p)
    \/ HasBadAmount(p) \/ HasBadCookingTime(p)

\* The database the kept request started from.
Before ==
    CHOOSE db \in SeedDatabases :
        Len(db.recipes) =
            Len(recipe_table) - (IF method = "POST" /\ instance # 0 THEN 1 ELSE 0)

LinksOfRecipes(b, S) == [r \in {x \in DOMAIN b : x.recipe \in S} |-> b[r]]
OtherRecipes == (1 .. Len(recipe_table)) \ {instance}
OthersUnchanged ==
    LinksOfRecipes(link_table, OtherRecipes) = LinksOfRecipes(Before.links, OtherRecipes)

\* One link per submitted entry: the entry's ingredient, the entry's amount.
ExpectedLinks(rid, items) ==
    LET row(j) == [recipe |-> rid, ingredient |-> items[j].id.value,
                   amount |-> items[j].amount]
        rows == {row(j) : j \in 1 .. Len(items)}
    IN  [r \in rows |-> Cardinality({j \in 1 .. Len(items) : row(j) = r})]

\* C1: a request whose payload has an unresolvable ingredient or tag identifier,
\* a repeated ingredient identifier, an amount < 1 or a cooking_time < 1 ends
\* in the step that validates it, with an error response, and that step
\* changes no Recipe row, no link row and no tag set.
C1Theorem ==
    [][(initial_data' # <<>> /\ Defective(initial_data'[1]))
         => /\ UNCHANGED database
            /\ pc' = "idle"
            /\ response'.status \in {"400", "500"}]_vars

C1Witness ==
    /\ Kept /\ Defective(payload) /\ DOMAIN payload = AllKeys
    /\ method = "PUT" /\ response.status = "400"
    /\ get_ingredients(instance) # EmptyBag

\* C2: while an update with a non-empty ingredients list runs on a recipe that
\* had at least one link, the recipe is never seen with zero links.
C2Claim ==
    (/\ method \in Updates /\ pc = "add_ingredients"
     /\ deleted # EmptyBag
     /\ Len(validated_data["ingredients"]) > 0)
        => get_ingredients(instance) # EmptyBag

\* C3: when a statement of create() fails after the Recipe row was inserted, no
\* Recipe row remains; when the batch insert of update() fails after the delete,
\* the recipe has its old links again.
C3Claim ==
    [][(pc # "idle" /\ response'.status = "500")
         => /\ (method = "POST" /\ pc \in {"add_ingredients", "set_tags"})
                  => Len(recipe_table') < instance
            /\ (method \in Updates /\ pc = "add_ingredients")
                  => get_ingredients(instance)' = deleted]_vars

\* C4: a payload with a repeated ingredient identifier gets the duplicate
\* ingredient error whatever its amounts are.  Stated for payloads in which
\* nothing but an amount can be wrong besides the repetition.
C4Claim ==
    (/\ Kept /\ pc = "idle"
     /\ HasRepeatedId(payload)
     /\ DOMAIN payload = AllKeys
     /\ ~HasUnresolvedId(payload) /\ ~HasUnresolvedTag(payload)
     /\ ~HasBadCookingTime(payload))
        => /\ response.status = "400"
           /\ \E e \in response.errors : e[2] = "duplicate"

\* C5: after a create with N entries of pairwise distinct identifiers the new
\* recipe has exactly N links, one per entry, with the entry's ingredient and
\* amount, attached to the new recipe; no other recipe's links change.
C5Theorem ==
    (Kept /\ method = "POST" /\ response.status = "201")
        => /\ ~HasRepeatedId(payload)
           /\ instance = Len(recipe_table)
           /\ BagCardinality(get_ingredients(instance)) = Len(payload["ingredients"])
           /\ get_ingredients(instance) = ExpectedLinks(instance, payload["ingredients"])
           /\ OthersUnchanged

C5Witness ==
    /\ Kept /\ method = "POST" /\ response.status = "201"
    /\ Len(payload["ingredients"]) = 2
    /\ Len(recipe_table) = 2

\* C6: no recipe has two links to the same ingredient.
C6Claim ==
    \A r1 \in DOMAIN link_table :
        /\ link_table[r1] = 1
        /\ \A r2 \in DOMAIN link_table :
              (r1.recipe = r2.recipe /\ r1.ingredient = r2.ingredient) => r1 = r2

\* C7: a partial update whose payload holds only name sets the recipe's name
\* and leaves its cooking time, its tags and every link as they were.
C7Claim ==
    (Kept /\ method = "PATCH" /\ pc = "idle" /\ DOMAIN payload = {"name"})
        => /\ recipe_table[instance].name = payload["name"]
           /\ recipe_table[instance].cooking_time = Before.recipes[instance].cooking_time
           /\ tag_table = Before.tags
           /\ link_table = Before.links

\* C8: after a successful update with ingredients in the payload the recipe's
\* links are exactly the submitted entries, no link to an ingredient that is
\* no longer listed remains, and no other recipe's links change.
C8Theorem ==
    (Kept /\ method \in Updates /\ response.status = "200" /\ Has(payload, "ingredients"))
        => /\ get_ingredients(instance) = ExpectedLinks(instance, payload["ingredients"])
           /\ \A old \in DOMAIN LinksOfRecipes(Before.links, {instance}) :
                 (\A j \in 1 .. Len(Entries(payload)) :
                      Entries(payload)[j].id.value # old.ingredient)
                    => old \notin DOMAIN link_table
           /\ OthersUnchanged

C8Witness ==
    /\ Kept /\ method = "PUT" /\ response.status = "200"
    /\ instance = 1 /\ Len(recipe_table) = 2
    /\ Len(payload["ingredients"]) = 1
    /\ payload["ingredients"][1].id.value = 2

\* C9: a payload with cooking_time < 1 is rejected with the invalid duration
\* error under the cooking_time key, and every Recipe row has cooking_time >= 1.
\* The rejection is stated for payloads in which nothing else is wrong.
C9Claim ==
    /\ \A i \in 1 .. Len(recipe_table) : recipe_table[i].cooking_time >= 1
    /\ (/\ Kept /\ pc = "idle"
        /\ HasBadCookingTime(payload)
        /\ DOMAIN payload = AllKeys
        /\ ~HasUnresolvedId(payload) /\ ~HasUnresolvedTag(payload)
        /\ ~HasRepeatedId(payload) /\ ~HasBadAmount(payload))
          => /\ response.status = "400"
             /\ <<"cooking_time", "invalid_duration">> \in response.errors

\* Every payload with an amount < 1 fails validation with the invalid amount
\* error, for full and for partial requests.
BadAmountRejected ==
    \A p \in Payloads :
        HasBadAmount(p) =>
            \A partial \in BOOLEAN :
                /\ run_validation(p, partial).status = "invalid"
                /\ <<"ingredients", "invalid_amount">> \in run_validation(p, partial).errors

\* C10: every link row has amount >= 1, in the table and in the batch a request
\* is about to insert; a payload with an amount of 0 or less is rejected with
\* the invalid amount error.
C10Theorem ==
    /\ \A r \in DOMAIN link_table : r.amount >= 1
    /\ Has(validated_data, "ingredients") =>
          \A j \in 1 .. Len(validated_data["ingredients"]) :
              validated_data["ingredients"][j].amount >= 1
    /\ BadAmountRejected

C10Witness ==
    /\ response.status = "400"
    /\ <<"ingredients", "invalid_amount">> \in response.errors
    /\ link_table # EmptyBag

====
